---- MODULE Spec2Model ----
(***************************************************************************)
(* A model of deepseek_client/client.py: the DeepSeekClient class, its     *)
(* constructor, the three request operations, the response normalisation   *)
(* (_handle_response), the two setters and the stream_response generator.  *)
(*                                                                         *)
(* Conventions.                                                            *)
(*   - An Optional[T] value is a sequence: <<>> is None, <<v>> is v.       *)
(*   - Floats that the client only compares and passes on (temperature,    *)
(*     top_p, presence_penalty) are integers counting tenths: 7 is 0.7.    *)
(*   - Byte strings are sequences of integers 0..255, decoded text is a    *)
(*     sequence of code points.                                            *)
(*   - The base URL is a sequence of tokens, "/" being the path separator. *)
(***************************************************************************)
EXTENDS Integers, Sequences, FiniteSets, TLC

VARIABLES
    env,                  \* os.environ.get("DEEPSEEK_API_KEY"), an Optional[str]
    constructed,          \* TRUE once __init__ has returned a client
    api_key,              \* self.api_key
    base_url,             \* self.base_url
    default_model,        \* self.default_model
    default_temperature,  \* self.default_temperature (tenths)
    timeout,              \* self.timeout
    headers,              \* self.headers
    lastCall,             \* the last operation: its arguments, request, response, outcome
    resp,                 \* the live requests.Response the last call returned, if any
    gen,                  \* the generator stream_response(resp) returned
    yielded               \* the lines the generator has yielded to its caller

vars == <<env, constructed, api_key, base_url, default_model, default_temperature,
          timeout, headers, lastCall, resp, gen, yielded>>

config == <<constructed, api_key, base_url, default_model, default_temperature,
            timeout, headers>>

(***************************************************************************)
(* Bounds and program constants                                            *)
(***************************************************************************)
MaxLines == 3                 \* lines the transport delivers on one stream

DefaultTemperature == 7       \* default_temperature: float = 0.7
DefaultTimeout == 30          \* timeout: int = 30
DefaultMaxTokens == 1024      \* max_tokens: int = 1024
DefaultTopP == 10             \* top_p: float = 1.0
DefaultPresencePenalty == 0   \* presence_penalty: float = 0.0
MinTemperature == 0           \* 0.0 <= temperature
MaxTemperature == 20          \* temperature <= 2.0
FirstErrorStatus == 400       \* raise_for_status raises from 400 on

None == <<>>
Some(v) == <<v>>

DefaultBaseUrl == <<"https://api.deepseek.com/v1">>
DefaultModel == "deepseek-chat"

(***************************************************************************)
(* The inputs the operations are called with                               *)
(***************************************************************************)
EnvValues == {None, Some("E1")}
ApiKeyArgs == {None, Some(""), Some("K1")}
BaseUrlArgs == {DefaultBaseUrl, DefaultBaseUrl \o <<"/", "/">>}
CtorTemperatures == {DefaultTemperature, 25}
SetterTemperatures == {-1, 0, 20, 21}
SetterModels == {"m2"}
Prompts == {"Test prompt"}
Conversations == {<<[role |-> "user", content |-> "Test"]>>}
NoKwargs == <<>>
\* the optional arguments of generate and chat: the defaults, and overrides
Defaults ==
    [model |-> None, temperature |-> None, max_tokens |-> DefaultMaxTokens,
     top_p |-> DefaultTopP, presence_penalty |-> DefaultPresencePenalty,
     kwargs |-> NoKwargs]
Overrides ==
    [model |-> Some("m2"), temperature |-> Some(15), max_tokens |-> 100,
     top_p |-> 9, presence_penalty |-> 5, kwargs |-> [stop |-> "END"]]
CallArgs ==
    { Defaults,
      [Defaults EXCEPT !.model = Some("m2")],
      [Defaults EXCEPT !.temperature = Some(0)],
      [Defaults EXCEPT !.temperature = Some(15)],
      [Overrides EXCEPT !.model = None, !.temperature = None],
      [Overrides EXCEPT !.temperature = Some(0)],
      Overrides }
Statuses == {200, 400, 503}
ErrorDescriptions == {"Connection broken", "IncompleteRead"}

(***************************************************************************)
(* Response bodies.  A body is what response.json() and response.text see: *)
(* a JSON object (of which the client reads the keys message, code, data), *)
(* a JSON value that is no object, or text that is not JSON.  A streaming  *)
(* response's body is unread when the call returns.                        *)
(***************************************************************************)
ObjectBody(keys) ==
    [kind |-> "object", keys |-> keys,
     message |-> IF "message" \in keys THEN "Invalid request parameters" ELSE "",
     code |-> IF "code" \in keys THEN "invalid_request" ELSE "",
     data |-> IF "data" \in keys THEN <<"model1", "model2">> ELSE <<>>,
     text |-> ""]
ArrayBody ==
    [kind |-> "array", keys |-> {}, message |-> "", code |-> "", data |-> <<>>,
     text |-> ""]
TextBody ==
    [kind |-> "text", keys |-> {}, message |-> "", code |-> "", data |-> <<>>,
     text |-> "Bad Gateway"]
UnreadBody ==
    [kind |-> "unread", keys |-> {}, message |-> "", code |-> "", data |-> <<>>,
     text |-> ""]
Bodies ==
    { ObjectBody({"message", "code"}), ObjectBody({"message"}), ObjectBody({"data"}),
      ArrayBody, TextBody }

(***************************************************************************)
(* Python's `a or b` and truthiness                                        *)
(***************************************************************************)
\* `model or self.default_model`: None and "" are falsy
OrModel(model, default) ==
    IF model # None /\ model[1] # "" THEN model[1] ELSE default

\* `temperature or self.default_temperature`: None and 0.0 are falsy
OrTemperature(temperature, default) ==
    IF temperature # None /\ temperature[1] # 0 THEN temperature[1] ELSE default

\* `os.getenv("DEEPSEEK_API_KEY") or api_key`
ResolveApiKeyEnvFirst(arg, environ) ==
    IF environ # None /\ environ[1] # "" THEN environ ELSE arg

\* `api_key or os.getenv("DEEPSEEK_API_KEY")`
ResolveApiKey(arg, environ) ==
    IF arg # None /\ arg[1] # "" THEN arg ELSE environ

\* `not self.api_key`
MissingApiKey(key) == key = None \/ key[1] = ""

\* base_url.rstrip("/")
RECURSIVE Rstrip(_)
Rstrip(url) ==
    IF url # <<>> /\ url[Len(url)] = "/"
    THEN Rstrip(SubSeq(url, 1, Len(url) - 1))
    ELSE url

BuildHeaders(key) ==
    ("Authorization" :> ("Bearer " \o key)) @@ ("Content-Type" :> "application/json")
        @@ ("User-Agent" :> "deepseek-client-python/1.0.0")

(***************************************************************************)
(* Outcomes of a call                                                      *)
(***************************************************************************)
Return(type, body, list) ==
    [kind |-> "return", type |-> type, msg |-> "", body |-> body, list |-> list]
Raise(type, msg) ==
    [kind |-> "raise", type |-> type, msg |-> msg, body |-> UnreadBody, list |-> <<>>]

(***************************************************************************)
(* _handle_response                                                        *)
(***************************************************************************)
\* response.raise_for_status() raises HTTPError
RaisesForStatus(status) == status >= FirstErrorStatus /\ status < 600

\* response.json() raises ValueError
JsonFails(body) == body.kind = "text"

\* error_data.get(key, default) on a JSON object
GetMessage(body) == IF "message" \in body.keys THEN body.message ELSE "Unknown error"
GetCode(body) == IF "code" \in body.keys THEN body.code ELSE "unknown"

ErrorMessage(status, code, message) ==
    "DeepSeek API Error " \o ToString(status) \o " (" \o code \o "): " \o message

HandleResponse(r) ==
    IF ~RaisesForStatus(r.status)
    THEN IF JsonFails(r.body)
         THEN Raise("ValueError", "Expecting value")
         ELSE Return("json", r.body, <<>>)
    ELSE IF JsonFails(r.body)
         THEN Raise("HTTPError", ErrorMessage(r.status, "parse_error", r.body.text))
         ELSE IF r.body.kind # "object"
              THEN Raise("AttributeError", "object has no attribute 'get'")
              ELSE Raise("HTTPError",
                         ErrorMessage(r.status, GetCode(r.body), GetMessage(r.body)))

(***************************************************************************)
(* Requests                                                                *)
(***************************************************************************)
\* {**named, **kwargs}: the later mapping wins on a shared key
Merge(named, kwargs) ==
    [k \in DOMAIN named \cup DOMAIN kwargs |->
        IF k \in DOMAIN kwargs THEN kwargs[k] ELSE named[k]]

Url(path) == base_url \o <<"/">> \o path

GeneratePayload(prompt, model, temperature, max_tokens, top_p, presence_penalty, stream, kwargs) ==
    Merge([model |-> OrModel(model, default_model),
           prompt |-> prompt,
           temperature |-> OrTemperature(temperature, default_temperature),
           max_tokens |-> max_tokens,
           top_p |-> top_p,
           presence_penalty |-> presence_penalty,
           stream |-> stream], kwargs)

ChatPayload(messages, model, temperature, max_tokens, top_p, presence_penalty, stream, kwargs) ==
    Merge([model |-> OrModel(model, default_model),
           messages |-> messages,
           temperature |-> OrTemperature(temperature, default_temperature),
           max_tokens |-> max_tokens,
           top_p |-> top_p,
           presence_penalty |-> presence_penalty,
           stream |-> stream], kwargs)

\* requests.post(url, headers=self.headers, json=payload, timeout=self.timeout, stream=stream)
Post(url, payload, stream) ==
    [method |-> "POST", url |-> url, headers |-> headers, json |-> payload,
     timeout |-> timeout, stream |-> stream]

\* requests.get(url, headers=self.headers, timeout=self.timeout)
Get(url) ==
    [method |-> "GET", url |-> url, headers |-> headers, json |-> NoKwargs,
     timeout |-> timeout, stream |-> FALSE]

\* the response object a streaming call hands back: nothing of the body is read,
\* and the connection is held open
NoHandle ==
    [live |-> FALSE, status |-> 0, delivered |-> <<>>, ended |-> "no", error |-> "",
     open |-> FALSE]
FreshHandle(status) ==
    [live |-> TRUE, status |-> status, delivered |-> <<>>, ended |-> "no", error |-> "",
     open |-> TRUE]

\* `self._handle_response(response)`, whatever stream is
AlwaysNormalize(stream, r) == HandleResponse(r)

\* `self._handle_response(response) if not stream else response`
ResultOf(stream, r) ==
    IF ~stream THEN HandleResponse(r) ELSE Return("Response", UnreadBody, <<>>)

\* `self._handle_response(response).get("data", [])`
DataOf(outcome) ==
    IF outcome.kind = "raise" THEN outcome
    ELSE IF outcome.body.kind # "object"
         THEN Raise("AttributeError", "object has no attribute 'get'")
         ELSE Return("list", outcome.body,
                     IF "data" \in outcome.body.keys THEN outcome.body.data ELSE <<>>)

\* `0.0 < temperature < 2.0`
InRangeExclusive(temperature) ==
    MinTemperature < temperature /\ temperature < MaxTemperature

\* `0.0 <= temperature <= 2.0`
InRange(temperature) ==
    MinTemperature <= temperature /\ temperature <= MaxTemperature

(***************************************************************************)
(* The operations of the client                                            *)
(***************************************************************************)
Init ==
    /\ env \in EnvValues
    /\ constructed = FALSE
    /\ api_key = ""
    /\ base_url = <<>>
    /\ default_model = ""
    /\ default_temperature = 0
    /\ timeout = 0
    /\ headers = BuildHeaders("")
    /\ lastCall = [op |-> "none"]
    /\ resp = NoHandle
    /\ gen = "none"
    /\ yielded = <<>>

\* DeepSeekClient(api_key, base_url, default_model, default_temperature, timeout);
\* default_model and timeout are stored as given and are left at their defaults.
\* When __init__ raises, no client exists and construction can be tried again.
Construct ==
    /\ ~constructed
    /\ \E key \in ApiKeyArgs, url \in BaseUrlArgs, temperature \in CtorTemperatures :
         LET resolved == ResolveApiKey(key, env) IN
         IF MissingApiKey(resolved)
         THEN /\ lastCall' = [op |-> "__init__", api_key |-> key,
                              outcome |-> Raise("ValueError", "API key required")]
              /\ UNCHANGED config
         ELSE /\ constructed' = TRUE
              /\ api_key' = resolved[1]
              /\ base_url' = Rstrip(url)
              /\ default_model' = DefaultModel
              /\ default_temperature' = temperature
              /\ timeout' = DefaultTimeout
              /\ headers' = BuildHeaders(resolved[1])
              /\ lastCall' = [op |-> "__init__", api_key |-> key,
                              outcome |-> Return("DeepSeekClient", UnreadBody, <<>>)]
    /\ UNCHANGED <<env, resp, gen, yielded>>

Responses(stream) ==
    { [status |-> s, body |-> b] : s \in Statuses,
                                   b \in IF stream THEN {UnreadBody} ELSE Bodies }

Generate ==
    /\ constructed
    /\ \E prompt \in Prompts, a \in CallArgs, stream \in BOOLEAN :
         \E r \in Responses(stream) :
            /\ lastCall' =
                 [op |-> "generate", input |-> prompt, args |-> a, stream |-> stream,
                  requests |-> << Post(Url(<<"completions">>),
                                       GeneratePayload(prompt, a.model, a.temperature,
                                           a.max_tokens, a.top_p, a.presence_penalty,
                                           stream, a.kwargs),
                                       stream) >>,
                  response |-> r,
                  outcome |-> ResultOf(stream, r)]
            /\ resp' = IF stream THEN FreshHandle(r.status) ELSE NoHandle
    /\ UNCHANGED <<env, config, gen, yielded>>

Chat ==
    /\ constructed
    /\ \E messages \in Conversations, a \in CallArgs, stream \in BOOLEAN :
         \E r \in Responses(stream) :
            /\ lastCall' =
                 [op |-> "chat", input |-> messages, args |-> a, stream |-> stream,
                  requests |-> << Post(Url(<<"chat", "/", "completions">>),
                                       ChatPayload(messages, a.model, a.temperature,
                                           a.max_tokens, a.top_p, a.presence_penalty,
                                           stream, a.kwargs),
                                       stream) >>,
                  response |-> r,
                  outcome |-> ResultOf(stream, r)]
            /\ resp' = IF stream THEN FreshHandle(r.status) ELSE NoHandle
    /\ UNCHANGED <<env, config, gen, yielded>>

ListModels ==
    /\ constructed
    /\ \E r \in Responses(FALSE) :
         lastCall' = [op |-> "list_models", stream |-> FALSE,
                      requests |-> << Get(Url(<<"models">>)) >>,
                      response |-> r,
                      outcome |-> DataOf(HandleResponse(r))]
    /\ resp' = NoHandle
    /\ UNCHANGED <<env, config, gen, yielded>>

SetDefaultModel ==
    /\ constructed
    /\ \E model \in SetterModels :
         /\ default_model' = model
         /\ lastCall' = [op |-> "set_default_model", model |-> model,
                         outcome |-> Return("None", UnreadBody, <<>>)]
    /\ UNCHANGED <<env, constructed, api_key, base_url, default_temperature, timeout,
                   headers, resp, gen, yielded>>

SetDefaultTemperature ==
    /\ constructed
    /\ \E temperature \in SetterTemperatures :
         IF ~InRange(temperature)
         THEN /\ lastCall' = [op |-> "set_default_temperature",
                              temperature |-> temperature,
                              outcome |-> Raise("ValueError",
                                  "Temperature must be between 0.0 and 2.0")]
              /\ UNCHANGED default_temperature
         ELSE /\ default_temperature' = temperature
              /\ lastCall' = [op |-> "set_default_temperature",
                              temperature |-> temperature,
                              outcome |-> Return("None", UnreadBody, <<>>)]
    /\ UNCHANGED <<env, constructed, api_key, base_url, default_model, timeout,
                   headers, resp, gen, yielded>>

Next ==
    \/ Construct
    \/ Generate
    \/ Chat
    \/ ListModels
    \/ SetDefaultModel
    \/ SetDefaultTemperature

Spec == Init /\ [][Next]_vars

(***************************************************************************)
(* stream_response                                                         *)
(***************************************************************************)
\* the raw lines response.iter_lines() can deliver: an empty keep-alive line,
\* "d:" (an ASCII framing prefix), "e" with an acute accent in two bytes, and a
\* byte that is not UTF-8
Lines == { <<>>, <<100, 58>>, <<195, 169>>, <<255>> }

RECURSIVE SeqsUpTo(_, _)
SeqsUpTo(S, n) ==
    IF n = 0 THEN { <<>> }
    ELSE LET shorter == SeqsUpTo(S, n - 1) IN
         shorter \cup { Append(q, x) : q \in shorter, x \in S }

\* what is left of the body: lines, then the end of the body or a
\* ChunkedEncodingError with its description
Feeds(n) ==
    { [lines |-> ls, ending |-> e, error |-> d] :
        ls \in SeqsUpTo(Lines, n),
        e \in {"eof"}, d \in {""} }
    \cup
    { [lines |-> ls, ending |-> e, error |-> d] :
        ls \in SeqsUpTo(Lines, n),
        e \in {"error"}, d \in ErrorDescriptions }

IsContinuation(b) == b >= 128 /\ b <= 191

\* line.decode("utf-8"), strict: [ok |-> FALSE] is UnicodeDecodeError
RECURSIVE Utf8Decode(_)
Utf8Decode(bytes) ==
    IF bytes = <<>> THEN [ok |-> TRUE, text |-> <<>>]
    ELSE
      LET b1 == bytes[1]
          width == IF b1 < 128 THEN 1
                   ELSE IF b1 >= 194 /\ b1 <= 223 THEN 2
                   ELSE IF b1 >= 224 /\ b1 <= 239 THEN 3
                   ELSE IF b1 >= 240 /\ b1 <= 244 THEN 4
                   ELSE 0
          wellFormed ==
              /\ width > 0
              /\ Len(bytes) >= width
              /\ \A i \in 2..width : IsContinuation(bytes[i])
              /\ (b1 = 224 => bytes[2] >= 160)
              /\ (b1 = 237 => bytes[2] <= 159)
              /\ (b1 = 240 => bytes[2] >= 144)
              /\ (b1 = 244 => bytes[2] <= 143)
          codePoint ==
              CASE width = 1 -> b1
                [] width = 2 -> (b1 - 192) * 64 + (bytes[2] - 128)
                [] width = 3 -> (b1 - 224) * 4096 + (bytes[2] - 128) * 64
                                    + (bytes[3] - 128)
                [] width = 4 -> (b1 - 240) * 262144 + (bytes[2] - 128) * 4096
                                    + (bytes[3] - 128) * 64 + (bytes[4] - 128)
      IN IF ~wellFormed THEN [ok |-> FALSE, text |-> <<>>]
         ELSE LET rest == Utf8Decode(SubSeq(bytes, width + 1, Len(bytes))) IN
              IF rest.ok THEN [ok |-> TRUE, text |-> <<codePoint>> \o rest.text]
              ELSE [ok |-> FALSE, text |-> <<>>]

\* `if line:` with the check left out
KeepEveryLine(line) == TRUE

\* `if line:`
KeepLine(line) == line # <<>>

\* f"Stream error: {str(e)}" naming the exception's type, not its description
StreamErrorTypeName(description) == "Stream error: ChunkedEncodingError"

\* f"Stream error: {str(e)}"
StreamError(description) == "Stream error: " \o description

\* The generator from one resumption to its next yield, return or raise: the
\* lines it takes from the transport (read), and what it does then.
RECURSIVE RunGenerator(_, _)
RunGenerator(feed, i) ==
    IF i > Len(feed.lines)
    THEN IF feed.ending = "eof"
         THEN [event |-> "return", read |-> Len(feed.lines), text |-> <<>>]
         ELSE [event |-> "chunked", read |-> Len(feed.lines), text |-> <<>>]
    ELSE IF KeepLine(feed.lines[i])
         THEN IF Utf8Decode(feed.lines[i]).ok
              THEN [event |-> "yield", read |-> i,
                    text |-> Utf8Decode(feed.lines[i]).text]
              ELSE [event |-> "undecodable", read |-> i, text |-> <<>>]
         ELSE RunGenerator(feed, i + 1)

\* self.stream_response(response): the call only creates the generator
StreamResponse ==
    /\ resp.live
    /\ gen = "none"
    /\ gen' = "created"
    /\ yielded' = <<>>
    /\ lastCall' = [op |-> "stream_response",
                    outcome |-> Return("generator", UnreadBody, <<>>)]
    /\ UNCHANGED <<env, config, resp>>

\* next(generator).  `feed` is what the transport delivers while the generator
\* runs: the lines it takes, the last of which makes it yield or raise, or lines
\* it skips and then the end of the body or the transport's failure.  The
\* transport releases the connection when the body ends and when it fails; the
\* client code releases nothing.
NextLine ==
    /\ gen # "none"
    /\ IF gen \in {"created", "suspended"}
       THEN \E feed \in Feeds(MaxLines - Len(resp.delivered)) :
              LET run == RunGenerator(feed, 1)
                  taken == resp.delivered \o SubSeq(feed.lines, 1, run.read)
              IN
              /\ run.read = Len(feed.lines)
              /\ CASE run.event = "yield" ->
                        /\ feed.ending = "eof" /\ feed.error = ""
                        /\ gen' = "suspended"
                        /\ yielded' = Append(yielded, run.text)
                        /\ resp' = [resp EXCEPT !.delivered = taken]
                        /\ lastCall' = [op |-> "next",
                                        outcome |-> Return("str", UnreadBody, run.text)]
                   [] run.event = "undecodable" ->
                        /\ feed.ending = "eof" /\ feed.error = ""
                        /\ gen' = "failed"
                        /\ yielded' = yielded
                        /\ resp' = [resp EXCEPT !.delivered = taken]
                        /\ lastCall' = [op |-> "next",
                                        outcome |-> Raise("UnicodeDecodeError",
                                                          "invalid start byte")]
                   [] run.event = "return" ->
                        /\ gen' = "done"
                        /\ yielded' = yielded
                        /\ resp' = [resp EXCEPT !.delivered = taken,
                                                !.ended = "eof", !.open = FALSE]
                        /\ lastCall' = [op |-> "next",
                                        outcome |-> Raise("StopIteration", "")]
                   [] run.event = "chunked" ->
                        /\ gen' = "failed"
                        /\ yielded' = yielded
                        /\ resp' = [resp EXCEPT !.delivered = taken,
                                                !.ended = "error",
                                                !.error = feed.error,
                                                !.open = FALSE]
                        /\ lastCall' = [op |-> "next",
                                        outcome |-> Raise("RequestException",
                                                          StreamError(feed.error))]
       ELSE /\ lastCall' = [op |-> "next", outcome |-> Raise("StopIteration", "")]
            /\ UNCHANGED <<resp, gen, yielded>>
    /\ UNCHANGED <<env, config>>

\* generator.close(), or the caller dropping the generator before it has ended
Close ==
    /\ gen # "none"
    /\ gen' = IF gen \in {"created", "suspended"} THEN "closed" ELSE gen
    /\ lastCall' = [op |-> "close", outcome |-> Return("None", UnreadBody, <<>>)]
    /\ UNCHANGED <<env, config, resp, yielded>>

\* A client right after DeepSeekClient(api_key="K1") and a streaming chat call
InitStream ==
    /\ env \in EnvValues
    /\ constructed = TRUE
    /\ api_key = "K1"
    /\ base_url = Rstrip(DefaultBaseUrl)
    /\ default_model = DefaultModel
    /\ default_temperature = DefaultTemperature
    /\ timeout = DefaultTimeout
    /\ headers = BuildHeaders("K1")
    /\ \E messages \in Conversations, a \in {Defaults}, r \in Responses(TRUE) :
         /\ lastCall =
              [op |-> "chat", input |-> messages, args |-> a, stream |-> TRUE,
               requests |-> << [method |-> "POST",
                                url |-> Rstrip(DefaultBaseUrl)
                                          \o <<"/", "chat", "/", "completions">>,
                                headers |-> BuildHeaders("K1"),
                                json |-> Merge([model |-> DefaultModel,
                                                messages |-> messages,
                                                temperature |-> DefaultTemperature,
                                                max_tokens |-> a.max_tokens,
                                                top_p |-> a.top_p,
                                                presence_penalty |-> a.presence_penalty,
                                                stream |-> TRUE], a.kwargs),
                                timeout |-> DefaultTimeout,
                                stream |-> TRUE] >>,
               response |-> r,
               outcome |-> ResultOf(TRUE, r)]
         /\ resp = FreshHandle(r.status)
    /\ gen = "none"
    /\ yielded = <<>>

NextStream ==
    \/ StreamResponse
    \/ NextLine
    \/ Close

SpecStream == InitStream /\ [][NextStream]_vars

(***************************************************************************)
(* Claims                                                                  *)
(***************************************************************************)
Supplied(credential) == credential # None /\ credential[1] # ""

NonEmptyLines(lines) == SelectSeq(lines, LAMBDA line : line # <<>>)

AllDecodable(lines) == \A i \in DOMAIN lines : Utf8Decode(lines[i]).ok

\* what the caller has received is the non-empty lines among `lines`, each
\* decoded, in their order
YieldedExactly(got, lines) ==
    LET kept == NonEmptyLines(lines) IN
    /\ Len(got) = Len(kept)
    /\ \A i \in DOMAIN kept :
          /\ Utf8Decode(kept[i]).ok
          /\ got[i] = Utf8Decode(kept[i]).text
          /\ got[i] # <<>>

\* C1: every non-streaming generate, chat or list_models call whose response has
\* a non-success status fails with an API error (HTTPError) whose message embeds
\* the status, a code and a message, for every shape of the body, a JSON value
\* that is no object included: the body's code and message when present,
\* "unknown" and "Unknown error" when absent, "parse_error" and the raw text when
\* the body is not JSON.  No other kind of error escapes.
C1_ApiErrorForEveryBody ==
    (/\ lastCall.op \in {"generate", "chat", "list_models"}
     /\ ~lastCall.stream
     /\ lastCall.response.status >= 400)
    => LET body == lastCall.response.body
           code == IF body.kind = "text" THEN "parse_error"
                   ELSE IF "code" \in body.keys THEN body.code ELSE "unknown"
           message == IF body.kind = "text" THEN body.text
                      ELSE IF "message" \in body.keys THEN body.message
                      ELSE "Unknown error"
       IN /\ lastCall.outcome.kind = "raise"
          /\ lastCall.outcome.type = "HTTPError"
          /\ lastCall.outcome.msg =
                "DeepSeek API Error " \o ToString(lastCall.response.status)
                    \o " (" \o code \o "): " \o message

\* C2: the payload of every generate call (chat: messages for prompt) is the
\* mapping model, prompt, temperature, max_tokens, top_p, presence_penalty,
\* stream merged with the extra fields, where model and temperature are the
\* caller's override whenever one is supplied (temperature 0.0 included) and the
\* instance default only otherwise; the request goes to {base}/completions
\* (chat: {base}/chat/completions).
C2_PayloadUsesOverrides ==
    lastCall.op \in {"generate", "chat"}
    => LET a == lastCall.args
           request == lastCall.requests[1]
           model == IF a.model # None THEN a.model[1] ELSE default_model
           temperature == IF a.temperature # None THEN a.temperature[1]
                          ELSE default_temperature
           named == IF lastCall.op = "generate"
                    THEN [model |-> model, prompt |-> lastCall.input,
                          temperature |-> temperature, max_tokens |-> a.max_tokens,
                          top_p |-> a.top_p, presence_penalty |-> a.presence_penalty,
                          stream |-> lastCall.stream]
                    ELSE [model |-> model, messages |-> lastCall.input,
                          temperature |-> temperature, max_tokens |-> a.max_tokens,
                          top_p |-> a.top_p, presence_penalty |-> a.presence_penalty,
                          stream |-> lastCall.stream]
       IN /\ Len(lastCall.requests) = 1
          /\ request.method = "POST"
          /\ request.url = base_url \o (IF lastCall.op = "generate"
                                        THEN <<"/", "completions">>
                                        ELSE <<"/", "chat", "/", "completions">>)
          /\ DOMAIN request.json = DOMAIN named \cup DOMAIN a.kwargs
          /\ \A k \in DOMAIN request.json :
                request.json[k] = IF k \in DOMAIN a.kwargs THEN a.kwargs[k]
                                  ELSE named[k]

\* C3 as stated: for every sequence of lines the transport delivers without a
\* transport failure, the generator yields exactly the non-empty lines, each
\* decoded, in order, and ends when the transport signals the end of the body.
C3_EveryLineSequence ==
    resp.ended # "error"
    => /\ YieldedExactly(yielded, resp.delivered)
       /\ gen # "failed"
       /\ (gen = "done" <=> resp.ended = "eof")

\* C3 as amended: for every sequence of lines, each of them valid UTF-8, that
\* the transport delivers without a transport failure, the generator yields
\* exactly the non-empty lines, each decoded and otherwise unmodified, in the
\* transport's order; no empty line is yielded, none twice, none dropped, and
\* the generator ends exactly when the transport signals the end of the body.
C3_DecodableLines ==
    (resp.ended # "error" /\ AllDecodable(resp.delivered))
    => /\ YieldedExactly(yielded, resp.delivered)
       /\ gen # "failed"
       /\ (gen = "done" <=> resp.ended = "eof")

C3_Witness ==
    /\ gen = "done"
    /\ resp.delivered = << <<100, 58>>, <<>>, <<195, 169>> >>
    /\ yielded = << <<100, 58>>, <<233>> >>

\* C4: set_default_temperature(v) raises ValueError and leaves the default
\* unchanged for v outside [0.0, 2.0]; for v inside, bounds included, it succeeds
\* and sets the default, no other operation changes the default, and every
\* generate or chat call without an explicit temperature sends the default.
C4_SetterStep ==
    LET c == lastCall' IN
    /\ c.op = "set_default_temperature"
       => IF MinTemperature <= c.temperature /\ c.temperature <= MaxTemperature
          THEN /\ c.outcome.kind = "return"
               /\ default_temperature' = c.temperature
          ELSE /\ c.outcome.kind = "raise"
               /\ c.outcome.type = "ValueError"
               /\ default_temperature' = default_temperature
    /\ (constructed /\ c.op # "set_default_temperature")
       => default_temperature' = default_temperature
    /\ (c.op \in {"generate", "chat"} /\ c.args.temperature = None)
       => c.requests[1].json["temperature"] = default_temperature'

C4_SetDefaultTemperature == [][C4_SetterStep]_vars

C4_Witness ==
    /\ lastCall.op \in {"generate", "chat"}
    /\ lastCall.args.temperature = None
    /\ default_temperature = 0
    /\ lastCall.requests[1].json["temperature"] = 0

\* C5: construction raises the configuration error exactly when neither the
\* argument nor the environment supplies a non-empty credential; a constructed
\* client holds a non-empty credential, the argument when it is non-empty and
\* the environment's otherwise, keeps it, and every request carries the
\* Authorization header "Bearer " followed by it.
C5_CredentialStep ==
    LET c == lastCall' IN
    /\ c.op = "__init__"
       => /\ c.outcome.kind = "raise" <=> (~Supplied(c.api_key) /\ ~Supplied(env))
          /\ c.outcome.kind = "raise"
             => c.outcome.type = "ValueError" /\ ~constructed'
          /\ c.outcome.kind = "return"
             => /\ constructed'
                /\ api_key' # ""
                /\ api_key' = IF Supplied(c.api_key) THEN c.api_key[1] ELSE env[1]
    /\ constructed => (constructed' /\ api_key' = api_key)
    /\ c.op \in {"generate", "chat", "list_models"}
       => \A i \in DOMAIN c.requests :
             c.requests[i].headers["Authorization"] = "Bearer " \o api_key'

C5_Credential == [][C5_CredentialStep]_vars

C5_Witness ==
    /\ constructed
    /\ env = Some("E1")
    /\ api_key = "E1"
    /\ lastCall.op = "generate"
    /\ lastCall.requests[1].headers["Authorization"] = "Bearer E1"

\* C6: a generate or chat call with stream=true returns the live response, not
\* normalised and with none of its body read, whatever the status; it never
\* raises an API error.  With stream=false nothing is returned but the envelope
\* the normalisation parsed, and a failure status never returns.
C6_StreamingReturnsHandle ==
    lastCall.op \in {"generate", "chat"}
    => IF lastCall.stream
       THEN /\ lastCall.outcome.kind = "return"
            /\ lastCall.outcome.type = "Response"
            /\ resp.live
            /\ resp.status = lastCall.response.status
            /\ resp.delivered = <<>>
            /\ resp.ended = "no"
            /\ resp.open
       ELSE /\ ~resp.live
            /\ lastCall.response.status >= 400 => lastCall.outcome.kind = "raise"
            /\ lastCall.outcome.kind = "return"
               => /\ lastCall.outcome.type = "json"
                  /\ lastCall.outcome.body = lastCall.response.body

C6_Witness ==
    /\ lastCall.op = "chat"
    /\ lastCall.stream
    /\ lastCall.response.status = 503
    /\ lastCall.outcome.kind = "return"
    /\ resp.delivered = <<>>

\* C7: list_models issues exactly one GET to {base}/models with the shared
\* headers and timeout and never streams; on a success response it returns the
\* envelope's data list in the provider's order, the empty sequence when the
\* envelope has no data key; on a non-success response it fails with the API
\* error of the normalisation and returns nothing.
C7_ListModels ==
    lastCall.op = "list_models"
    => LET request == lastCall.requests[1]
           r == lastCall.response
       IN /\ Len(lastCall.requests) = 1
          /\ request.method = "GET"
          /\ request.url = base_url \o <<"/", "models">>
          /\ request.headers = headers
          /\ request.timeout = timeout
          /\ ~request.stream
          /\ (r.status < 400 /\ r.body.kind = "object")
             => /\ lastCall.outcome.kind = "return"
                /\ lastCall.outcome.list =
                      IF "data" \in r.body.keys THEN r.body.data ELSE <<>>
          /\ r.status >= 400
             => /\ lastCall.outcome.kind = "raise"
                /\ lastCall.outcome.type = "HTTPError"

\* C8: when the transport reports a chunked-encoding failure after delivering
\* n >= 0 lines, the generator has yielded exactly the non-empty ones among
\* them, in order, and the pull fails with a stream error wrapping the
\* failure's description; afterwards the yielded lines stay, no pull produces a
\* line and nothing more is read from the transport.
C8_FailureStep ==
    /\ (resp.ended # "error" /\ resp'.ended = "error")
       => /\ lastCall'.op = "next"
          /\ lastCall'.outcome.kind = "raise"
          /\ lastCall'.outcome.type = "RequestException"
          /\ lastCall'.outcome.msg = "Stream error: " \o resp'.error
          /\ resp'.error \in ErrorDescriptions
          /\ yielded' = yielded
          /\ YieldedExactly(yielded', resp'.delivered)
    /\ resp.ended = "error"
       => /\ yielded' = yielded
          /\ resp' = resp
          /\ gen' = gen
          /\ lastCall'.op = "next" => lastCall'.outcome.type = "StopIteration"

C8_StreamFailure == [][C8_FailureStep]_vars

C8_Witness ==
    /\ resp.ended = "error"
    /\ resp.delivered = << <<100, 58>>, <<>>, <<195, 169>> >>
    /\ yielded = << <<100, 58>>, <<233>> >>
    /\ lastCall.op = "next"
    /\ lastCall.outcome.type = "StopIteration"

\* C9: the connection a streaming response holds is released on every exit
\* path of its consumption: when the sequence is exhausted, when the caller
\* abandons it, and when it fails.
C9_ConnectionReleased ==
    gen \in {"done", "failed", "closed"} => ~resp.open

\* C10: in every state of a constructed client the default temperature lies in
\* [0.0, 2.0].
C10_DefaultTemperatureInRange ==
    constructed
    => MinTemperature <= default_temperature /\ default_temperature <= MaxTemperature

====
